---- MODULE Spec2Model ----
(***************************************************************************)
(* The staged artifact pipeline of ASRA: the three stage functions         *)
(*   analyze_papers          (agents/literature_review.ipynb)              *)
(*   generate_hypotheses     (agents/hypothesis_generator.ipynb)           *)
(*   generate_visualizations (agents/visualizer.ipynb)                     *)
(* each load their inputs, run one external call per item and persist one  *)
(* JSON artifact.  One stage invocation runs at a time (the notebooks are  *)
(* run one after the other); every loop iteration is one step.             *)
(*                                                                         *)
(* A file is a record [state, data]: state "absent", "ok" (a well-formed   *)
(* JSON object, data = its mapping), "empty" (zero bytes, what open(.,'w') *)
(* leaves), "partial" (a prefix of a document) or "malformed" (not JSON).  *)
(* A key string is a pair <<prefix, name>>: the paper title t is <<"",t>>, *)
(* f'hypothesis_{t}' is <<"hypothesis_",t>>, f'results_{d}' is             *)
(* <<"results_",d>>.  A payload is the set of the field names it carries.  *)
(***************************************************************************)
EXTENDS Integers, FiniteSets, Sequences, TLC

VARIABLES
    papers,     \* titles of the documents in RESEARCH_PAPERS_DIR
    lit,        \* OUTPUTS_DIR / literature_analysis.json
    hyp,        \* OUTPUTS_DIR / generated_hypotheses.json
    exp,        \* OUTPUTS_DIR / experimental_analysis.json (external producer)
    meta,       \* vis_dir / visualization_metadata.json
    stage,      \* the stage function invoked last: "none", "lit", "hyp", "vis"
    pc,         \* position in it: "idle", "load", "loop", "dump"
    loaded,     \* names of the inputs the running invocation has loaded
    items,      \* the items its loops have still to visit, in order
    acc,        \* analysis_results / hypotheses / visualization_results
    attempted,  \* items whose loop body was entered in this invocation
    succeeded,  \* items whose external call produced a non-empty result
    skipped,    \* number of items whose external call raised or returned empty
    last,       \* the item visited last, what its external call did and
                \* the events the visit sent to the logger
    wrote,      \* this invocation replaced its output artifact
    outcome,    \* how the last invocation ended
    prev        \* the invocation before the running one (SpecRerun only)

vars == <<papers, lit, hyp, exp, meta, stage, pc, loaded, items, acc,
          attempted, succeeded, skipped, last, wrote, outcome, prev>>

files == <<papers, lit, hyp, exp, meta>>

(* Bounds of the model. *)
NumTitles == 2
NumDatasets == 1

Titles == 1..NumTitles
Datasets == 1..NumDatasets

Stages == {"lit", "hyp", "vis"}

(* What one external call (BERT, the DeepSeek request, Stable Diffusion)   *)
(* can do: raise, return None, return an empty value, return a result.     *)
ExternalResults == {"raise", "none", "empty", "ok"}

-----------------------------------------------------------------------------
(* Files and payloads *)

EmptyMap == <<>>

AbsentFile == [state |-> "absent", data |-> EmptyMap]
EmptyFile == [state |-> "empty", data |-> EmptyMap]
PartialFile == [state |-> "partial", data |-> EmptyMap]
MalformedFile == [state |-> "malformed", data |-> EmptyMap]

Doc(m) == [state |-> "ok", data |-> m]

TitleKey(t) == <<"", t>>
\* HypothesisKeyNoTitle: the f-string without its placeholder.
HypothesisKeyNoTitle(t) == <<"hypothesis_", 0>>
HypothesisKey(t) == <<"hypothesis_", t>>
\* ResultsKeyCopyPaste: the second loop reusing the first loop's prefix.
ResultsKeyCopyPaste(d) == <<"hypothesis_", d>>
ResultsKey(d) == <<"results_", d>>

LitPayload == {"key_insights", "importance_scores"}
HypPayload == {"context", "generated_hypothesis"}
ExpPayload == {"feature_importance"}
PathOf(k) == [png |-> k]

(* Payloads a file on disk may carry that lack the field a stage reads. *)
LitPayloadNoInsights == {"importance_scores"}
HypPayloadNoHypothesis == {"context"}
ExpPayloadNoImportance == {}

Docs(keys, payloads) ==
    {Doc(m) : m \in UNION {[S -> payloads] : S \in SUBSET keys}}

RECURSIVE Order(_)
Order(S) ==
    IF S = {} THEN <<>>
    ELSE LET m == CHOOSE x \in S : \A y \in S : x <= y
         IN <<m>> \o Order(S \ {m})

Tagged(kind, names) == [i \in 1..Len(names) |-> <<kind, names[i]>>]

Names(f) == {k[2] : k \in DOMAIN f.data}

-----------------------------------------------------------------------------
(* The artifact store (utils/helpers.py) *)

(* load_json: raises unless the file holds a well-formed keyed mapping. *)
LoadOk(f) == f.state = "ok"

(* save_json: a complete, all-or-nothing replace of the file. *)
Saved(old, m) == Doc(m)

(* open(metadata_path, 'w') truncates the file to zero bytes (OpenA: the   *)
(* file opened with 'a', which keeps what it holds).                       *)
OpenA(old) == IF old.state = "absent" THEN EmptyFile ELSE old
OpenW(old) == EmptyFile

(* json.dump(visualization_results, f) appends the document to what the    *)
(* open file holds; only on a zero-byte file is the result one document.   *)
Dumped(cur, m) == IF cur.state = "empty" THEN Doc(m) ELSE MalformedFile

-----------------------------------------------------------------------------
(* The stages' decisions *)

(* analyze_papers: "if not papers" (LitHasPapersAlways: without the early  *)
(* return).                                                                *)
LitHasPapersAlways(p) == TRUE
LitHasPapers(p) == p # {}

(* generate_hypotheses: the try around load_json, whose except clause      *)
(* returns (HypLoadedAlways: an except clause that only logs).             *)
HypLoadedAlways(l) == TRUE
HypLoaded(l) == LoadOk(l)

(* generate_visualizations: the try around both load_json calls           *)
(* (VisLoadedPrimaryOnly: the second load left out of the try's effect).   *)
VisLoadedPrimaryOnly(h, e) == LoadOk(h)
VisLoaded(h, e) == LoadOk(h) /\ LoadOk(e)

(* A subscript payload[field] raises KeyError when the field is missing. *)
HasField(payload, field) == field \in payload

(* Python truthiness of a returned value: None and empty values are falsy  *)
(* (TruthyNotNone: the test "is not None" in its place).                   *)
TruthyNotNone(v) == v # "none"
Truthy(v) == v \notin {"none", "empty"}

(* analyze_papers' try block: extract_key_insights raising, or the         *)
(* subscripts insights['key_points'] / insights['importance_scores']       *)
(* raising on None or on an empty dict, all end in the except clause       *)
(* (LitStoresUnlessRaised: the subscripts replaced by .get).               *)
LitStoresUnlessRaised(r) == r # "raise"
LitStores(r) == r = "ok"

(* DeepSeekAPI.generate_hypothesis: any exception is caught and None is    *)
(* returned; otherwise the decoded response is returned as it is.          *)
HypReturn(r) == IF r = "raise" THEN "none" ELSE r

(* VisualizationGenerator.generate_visualization: pipeline(prompt)         *)
(* .images[0] and image.save inside a try; the path on success, None on    *)
(* any exception (None.images, an empty image list, a failed save)         *)
(* (VisReturnPathAlways: the path returned from the except clause too).    *)
VisReturnPathAlways(r) == "ok"
VisReturn(r) == IF r = "ok" THEN "ok" ELSE "none"

-----------------------------------------------------------------------------
(* Items of a stage, as its loops visit them *)

LitItems == Tagged("paper", Order(papers))
HypItems == Tagged("analysis", Order(Names(lit)))
\* VisItemsResultsFirst: the two loops of generate_visualizations swapped.
VisItemsResultsFirst ==
    Tagged("results", Order(Names(exp)))
        \o Tagged("hypothesis", Order(Names(hyp)))
VisItems == Tagged("hypothesis", Order(Names(hyp)))
                \o Tagged("results", Order(Names(exp)))

ItemsOf(s) ==
    CASE s = "lit" -> LitItems
      [] s = "hyp" -> HypItems
      [] s = "vis" -> VisItems
      [] OTHER -> <<>>

Range(q) == {q[i] : i \in 1..Len(q)}

(* output_path of analyze_papers and of generate_hypotheses                 *)
(* (OutputPathOfInput: generate_hypotheses saving to its analysis_path).   *)
OutputPathOfInput(s) == "literature_analysis"
OutputPath(s) ==
    IF s = "lit" THEN "literature_analysis" ELSE "generated_hypotheses"

OutFile(s) ==
    CASE s = "lit" -> lit
      [] s = "hyp" -> hyp
      [] OTHER -> meta

(* The key under which an item's result is stored. *)
OutKey(it) ==
    CASE it[1] = "hypothesis" -> HypothesisKey(it[2])
      [] it[1] = "results" -> ResultsKey(it[2])
      [] OTHER -> TitleKey(it[2])

(* The input payload of an item of the Hypothesis and Visualization stages. *)
InPayload(it) ==
    CASE it[1] = "analysis" -> lit.data[TitleKey(it[2])]
      [] it[1] = "hypothesis" -> hyp.data[TitleKey(it[2])]
      [] it[1] = "results" -> exp.data[TitleKey(it[2])]
      [] OTHER -> {}

(* The field of that payload the loop body reads outside any try. *)
FieldRead(it) ==
    CASE it[1] = "analysis" -> "key_insights"
      [] it[1] = "hypothesis" -> "generated_hypothesis"
      [] it[1] = "results" -> "feature_importance"
      [] OTHER -> ""

-----------------------------------------------------------------------------
(* Initial states: what the directories may hold before a stage is run *)

(* The key of a log message that names no item. *)
NoKey == <<"-", 0>>

NoLast == [item |-> <<"-", 0>>, result |-> "-", events |-> <<>>]
NoPrev == [stage |-> "none", outcome |-> "none", succeeded |-> {},
           out |-> AbsentFile]

TitleKeys == {TitleKey(t) : t \in Titles}
DatasetKeys == {TitleKey(d) : d \in Datasets}

StaleLit == Doc([k \in TitleKeys |-> LitPayload])
StaleHyp == Doc([k \in TitleKeys |-> HypPayload])
FullExp == Doc([k \in DatasetKeys |-> ExpPayload])
StaleMeta ==
    Doc([k \in {HypothesisKey(t) : t \in Titles}
                  \cup {ResultsKey(d) : d \in Datasets} |-> PathOf(k)])

Idle ==
    /\ stage = "none" /\ pc = "idle" /\ loaded = {} /\ items = <<>>
    /\ acc = EmptyMap /\ attempted = {} /\ succeeded = {} /\ skipped = 0
    /\ last = NoLast /\ wrote = FALSE /\ outcome = "none" /\ prev = NoPrev

(* Papers to analyse, with or without the artifacts of an earlier run. *)
InitLit ==
    /\ papers \in SUBSET Titles
    /\ lit \in {AbsentFile, StaleLit}
    /\ hyp = AbsentFile
    /\ exp \in {AbsentFile, FullExp}
    /\ meta = AbsentFile

(* A literature analysis left on disk, whatever its payloads. *)
InitHyp ==
    /\ papers = {}
    /\ lit \in Docs(TitleKeys, {LitPayload, LitPayloadNoInsights})
    /\ hyp \in {AbsentFile, StaleHyp}
    /\ exp = AbsentFile
    /\ meta = AbsentFile

(* Hypotheses and the external experimental analysis left on disk. *)
InitVis ==
    /\ papers = {}
    /\ lit = AbsentFile
    /\ hyp \in {AbsentFile} \cup Docs(TitleKeys, {HypPayload, HypPayloadNoHypothesis})
    /\ exp \in {AbsentFile, MalformedFile}
                 \cup Docs(DatasetKeys, {ExpPayload, ExpPayloadNoImportance})
    /\ meta \in {AbsentFile, StaleMeta}

Init == Idle /\ (InitLit \/ InitHyp \/ InitVis)

-----------------------------------------------------------------------------
(* One stage invocation *)

Reset(s) ==
    /\ stage' = s /\ pc' = "load" /\ loaded' = {} /\ items' = <<>>
    /\ acc' = EmptyMap /\ attempted' = {} /\ succeeded' = {} /\ skipped' = 0
    /\ last' = NoLast /\ wrote' = FALSE /\ outcome' = "running"

(* The stage function is called. *)
Start(s) ==
    /\ pc = "idle"
    /\ Reset(s)
    /\ UNCHANGED <<files, prev>>

Finish(o) == pc' = "idle" /\ items' = <<>> /\ outcome' = o

(* analyze_papers: load_research_papers, "if not papers: return {}". *)
LoadPapers ==
    /\ stage = "lit" /\ pc = "load"
    /\ IF LitHasPapers(papers)
       THEN /\ pc' = "loop" /\ items' = LitItems /\ loaded' = {"papers"}
            /\ UNCHANGED outcome
       ELSE Finish("skipped") /\ UNCHANGED loaded
    /\ UNCHANGED <<files, stage, acc, attempted, succeeded, skipped, last,
                   wrote, prev>>

(* generate_hypotheses: load literature_analysis.json or log and return {}. *)
LoadAnalysis ==
    /\ stage = "hyp" /\ pc = "load"
    /\ IF HypLoaded(lit)
       THEN /\ pc' = "loop" /\ items' = HypItems
            /\ loaded' = {"literature_analysis"}
            /\ UNCHANGED outcome
       ELSE Finish("skipped") /\ UNCHANGED loaded
    /\ UNCHANGED <<files, stage, acc, attempted, succeeded, skipped, last,
                   wrote, prev>>

(* generate_visualizations: mkdir vis_dir, load both inputs or return {}. *)
LoadResults ==
    /\ stage = "vis" /\ pc = "load"
    /\ IF VisLoaded(hyp, exp)
       THEN /\ pc' = "loop" /\ items' = VisItems
            /\ loaded' = {"generated_hypotheses", "experimental_analysis"}
            /\ UNCHANGED outcome
       ELSE Finish("skipped") /\ UNCHANGED loaded
    /\ UNCHANGED <<files, stage, acc, attempted, succeeded, skipped, last,
                   wrote, prev>>

(* What the visit of item it logs when its external call does r.           *)
(* analyze_papers: logger.info(f'Successfully analyzed paper: {title}') or *)
(* logger.error(f'Error analyzing paper {title}: ...').                    *)
(* generate_hypotheses: generate_hypothesis logs "Error in DeepSeek API    *)
(* call: ..." when the request raises, and nothing when the response is    *)
(* null or empty; the loop logs 'Generated hypothesis for paper: {title}'  *)
(* when it stores.  generate_visualizations: generate_visualization logs   *)
(* "Error generating visualization: ..." from its except clause; the loops *)
(* log nothing.                                                            *)
LogEvents(it, r) ==
    CASE it[1] = "paper" ->
            IF LitStores(r)
            THEN <<[level |-> "info", key |-> TitleKey(it[2])]>>
            ELSE <<[level |-> "error", key |-> TitleKey(it[2])]>>
      [] it[1] = "analysis" ->
            (IF r = "raise" THEN <<[level |-> "error", key |-> NoKey]>>
                            ELSE <<>>)
            \o (IF Truthy(HypReturn(r))
                THEN <<[level |-> "info", key |-> TitleKey(it[2])]>>
                ELSE <<>>)
      [] OTHER ->
            IF VisReturn(r) = "ok" THEN <<>>
            ELSE <<[level |-> "error", key |-> NoKey]>>

(* What a visit of item it does when its external call does r and the     *)
(* stage then stores, or does not store, value v under the item's key.     *)
Visit(it, r, stores, v) ==
    /\ items' = Tail(items)
    /\ attempted' = attempted \cup {it}
    /\ succeeded' = IF r = "ok" THEN succeeded \cup {it} ELSE succeeded
    /\ skipped' = IF r = "ok" THEN skipped ELSE skipped + 1
    /\ last' = [item |-> it, result |-> r, events |-> LogEvents(it, r)]
    /\ acc' = IF stores THEN (OutKey(it) :> v) @@ acc ELSE acc

(* analyze_papers: one iteration of the loop over papers. *)
AnalyzePaper ==
    /\ stage = "lit" /\ pc = "loop" /\ items # <<>>
    /\ \E r \in ExternalResults :
          Visit(Head(items), r, LitStores(r), LitPayload)
    /\ UNCHANGED <<files, stage, pc, loaded, wrote, outcome, prev>>

(* A loop body reads a field its item's payload lacks: the KeyError is     *)
(* raised outside any try and ends the invocation.                         *)
ItemKeyError ==
    /\ stage \in {"hyp", "vis"} /\ pc = "loop" /\ items # <<>>
    /\ ~HasField(InPayload(Head(items)), FieldRead(Head(items)))
    /\ attempted' = attempted \cup {Head(items)}
    /\ Finish("item_error")
    /\ UNCHANGED <<files, stage, loaded, acc, succeeded, skipped, last,
                   wrote, prev>>

(* generate_hypotheses: one iteration of the loop over the analysis. *)
GenerateHypothesis ==
    /\ stage = "hyp" /\ pc = "loop" /\ items # <<>>
    /\ HasField(InPayload(Head(items)), FieldRead(Head(items)))
    /\ \E r \in ExternalResults :
          Visit(Head(items), r, Truthy(HypReturn(r)), HypPayload)
    /\ UNCHANGED <<files, stage, pc, loaded, wrote, outcome, prev>>

(* generate_visualizations: one iteration of either loop. *)
GenerateVisualization ==
    /\ stage = "vis" /\ pc = "loop" /\ items # <<>>
    /\ HasField(InPayload(Head(items)), FieldRead(Head(items)))
    /\ \E r \in ExternalResults :
          Visit(Head(items), r, Truthy(VisReturn(r)),
                PathOf(OutKey(Head(items))))
    /\ UNCHANGED <<files, stage, pc, loaded, wrote, outcome, prev>>

(* analyze_papers / generate_hypotheses: save_json after the loop. *)
SaveJson ==
    /\ stage \in {"lit", "hyp"} /\ pc = "loop" /\ items = <<>>
    /\ \E ok \in BOOLEAN :
          IF ok
          THEN /\ IF OutputPath(stage) = "literature_analysis"
                  THEN lit' = Saved(lit, acc) /\ UNCHANGED hyp
                  ELSE hyp' = Saved(hyp, acc) /\ UNCHANGED lit
               /\ wrote' = TRUE
               /\ Finish("returned")
          ELSE /\ UNCHANGED <<lit, hyp, wrote>>
               /\ Finish("write_error")
    /\ UNCHANGED <<papers, exp, meta, stage, loaded, acc, attempted,
                   succeeded, skipped, last, prev>>

(* generate_visualizations: open(metadata_path, 'w'). *)
OpenMetadata ==
    /\ stage = "vis" /\ pc = "loop" /\ items = <<>>
    /\ \E ok \in BOOLEAN :
          IF ok
          THEN /\ meta' = OpenW(meta) /\ pc' = "dump"
               /\ UNCHANGED <<items, outcome>>
          ELSE UNCHANGED meta /\ Finish("write_error")
    /\ UNCHANGED <<papers, lit, hyp, exp, stage, loaded, acc, attempted,
                   succeeded, skipped, last, wrote, prev>>

(* generate_visualizations: json.dump into the open file, then return. *)
DumpMetadata ==
    /\ stage = "vis" /\ pc = "dump"
    /\ \E ok \in BOOLEAN :
          IF ok
          THEN /\ meta' = Dumped(meta, acc) /\ wrote' = TRUE
               /\ Finish("returned")
          ELSE /\ meta' = PartialFile /\ UNCHANGED wrote
               /\ Finish("write_error")
    /\ UNCHANGED <<papers, lit, hyp, exp, stage, loaded, acc, attempted,
                   succeeded, skipped, last, prev>>

(* The process is killed in the middle of an invocation. *)
Crash ==
    /\ pc # "idle"
    /\ Finish("crashed")
    /\ UNCHANGED <<files, stage, loaded, acc, attempted, succeeded, skipped,
                   last, wrote, prev>>

Step ==
    \/ LoadPapers \/ LoadAnalysis \/ LoadResults
    \/ AnalyzePaper \/ ItemKeyError \/ GenerateHypothesis
    \/ GenerateVisualization
    \/ SaveJson \/ OpenMetadata \/ DumpMetadata
    \/ Crash

Next == (\E s \in Stages : Start(s)) \/ Step

Spec == Init /\ [][Next]_vars

-----------------------------------------------------------------------------
(* Running a stage again: the same steps, with the invocation that came    *)
(* before and the artifact it left kept in prev for comparison.            *)

StartAgain(s) ==
    /\ pc = "idle"
    /\ Reset(s)
    /\ prev' = IF s = stage /\ outcome = "returned"
               THEN [stage |-> stage, outcome |-> outcome,
                     succeeded |-> succeeded, out |-> OutFile(s)]
               ELSE [NoPrev EXCEPT !.stage = stage, !.outcome = outcome]
    /\ UNCHANGED files

NextRerun == (\E s \in Stages : StartAgain(s)) \/ Step

(* Papers with or without an earlier analysis; no papers and the analysis  *)
(* of any earlier run; or hypotheses, an external experimental analysis    *)
(* and possibly earlier visualization metadata.                            *)
InitRerun ==
    /\ Idle
    /\ \/ /\ \/ papers \in SUBSET Titles /\ lit \in {AbsentFile, StaleLit}
             \/ papers = {} /\ lit \in Docs(TitleKeys, {LitPayload})
          /\ hyp = AbsentFile /\ exp = AbsentFile /\ meta = AbsentFile
       \/ /\ papers = {} /\ lit = AbsentFile
          /\ hyp \in Docs(TitleKeys, {HypPayload})
          /\ exp \in Docs(DatasetKeys, {ExpPayload, ExpPayloadNoImportance})
          /\ meta \in {AbsentFile, StaleMeta}

SpecRerun == InitRerun /\ [][NextRerun]_vars

-----------------------------------------------------------------------------
(* Vocabulary of the properties *)

AllItems == Range(ItemsOf(stage))

PrimaryItems ==
    {it \in AllItems : it[1] \in {"paper", "analysis", "hypothesis"}}

(* Key set of the stage's primary input. *)
PrimaryKeys ==
    CASE stage = "lit" -> {<<"", t>> : t \in papers}
      [] stage = "hyp" -> DOMAIN lit.data
      [] OTHER -> DOMAIN hyp.data

PrimaryAbsent ==
    CASE stage = "lit" -> papers = {}
      [] stage = "hyp" -> lit.state = "absent"
      [] stage = "vis" -> hyp.state = "absent"
      [] OTHER -> FALSE

PrimaryPresentNonEmpty ==
    CASE stage = "lit" -> papers # {}
      [] stage = "hyp" -> lit.state = "ok" /\ DOMAIN lit.data # {}
      [] stage = "vis" -> hyp.state = "ok" /\ DOMAIN hyp.data # {}
      [] OTHER -> FALSE

Returned == pc = "idle" /\ outcome = "returned"

OutKeys == DOMAIN OutFile(stage).data

(* The key an item's result is to be found under, written out. *)
KeyFor(it) ==
    CASE it[1] = "hypothesis" -> <<"hypothesis_", it[2]>>
      [] it[1] = "results" -> <<"results_", it[2]>>
      [] OTHER -> <<"", it[2]>>

-----------------------------------------------------------------------------
(* C1: per-item failure isolation.  An invocation that loaded its inputs   *)
(* and was not killed has entered the loop body of every item of its       *)
(* collections and has gone on to its persist step, whichever items        *)
(* failed.                                                                 *)
C1_FailureIsolation ==
    (pc = "idle" /\ loaded # {} /\ outcome # "crashed")
        => /\ attempted = AllItems
           /\ outcome \in {"returned", "write_error"}

(* C2 as stated: once the artifact is written, its number of entries plus  *)
(* the number of skipped items is the number of items of the primary       *)
(* input, and its keys are the keys of the primary input whose transform   *)
(* succeeded.                                                              *)
C2_ConservationPrimary ==
    Returned
        => /\ Cardinality(OutKeys) + skipped = Cardinality(PrimaryKeys)
           /\ OutKeys = {<<"", it[2]>> : it \in succeeded \cap PrimaryItems}

(* C2 as amended: the entries plus the skipped items are the items of all  *)
(* the collections the stage iterates over, and the artifact holds exactly *)
(* one entry per succeeded item, under the key the stage derives from it.  *)
C2_ConservationAllItems ==
    Returned
        => /\ Cardinality(OutKeys) + skipped = Cardinality(AllItems)
           /\ OutKeys = {KeyFor(it) : it \in succeeded}
           /\ Cardinality(OutKeys) = Cardinality(succeeded)

C2_Witness ==
    /\ Returned /\ stage = "vis" /\ skipped > 0
    /\ \E a, b \in succeeded : a[1] = "hypothesis" /\ b[1] = "results"

(* C3 as stated: when every transform succeeds, the written artifact's key *)
(* set is the key set of the primary input.                                *)
C3_KeySetOfPrimary ==
    (Returned /\ succeeded = AllItems) => OutKeys = PrimaryKeys

(* C3 as amended: when every transform succeeds, Literature and Hypothesis *)
(* write exactly the keys of their primary input; Visualization writes     *)
(* 'hypothesis_'+k for every key k of generated_hypotheses and             *)
(* 'results_'+d for every key d of experimental_analysis; in each case one *)
(* entry per item.                                                         *)
C3_KeySetDerived ==
    (Returned /\ succeeded = AllItems)
        => /\ stage \in {"lit", "hyp"} => OutKeys = PrimaryKeys
           /\ stage = "vis" =>
                 OutKeys = {<<"hypothesis_", k[2]>> : k \in DOMAIN hyp.data}
                              \cup {<<"results_", k[2]>> : k \in DOMAIN exp.data}
           /\ Cardinality(OutKeys) = Cardinality(AllItems)

C3_Witness ==
    /\ Returned /\ stage = "vis" /\ succeeded = AllItems
    /\ \E a, b \in succeeded : a[1] = "hypothesis" /\ b[1] = "results"
    /\ Cardinality(PrimaryKeys) = NumTitles

C5_MissingPrimaryFailsFast ==
    (stage \in Stages /\ PrimaryAbsent)
        => /\ pc \in {"load", "idle"}
           /\ loaded = {} /\ attempted = {} /\ ~wrote
           /\ pc = "idle" => outcome \in {"skipped", "crashed"}

C5_Witness ==
    /\ stage = "vis" /\ pc = "idle" /\ outcome = "skipped"
    /\ hyp.state = "absent" /\ exp.state = "ok" /\ meta.state = "ok"

(* C6: while generated_hypotheses.json is present and                      *)
(* experimental_analysis.json is absent, no step of the Visualization      *)
(* stage renders an item or changes visualization_metadata.json, and the   *)
(* stage leaves its load step only by the missing-input return.            *)
C6_MissingAnalysisFrame ==
    [][(stage' = "vis" /\ hyp.state = "ok" /\ exp.state = "absent")
          => /\ meta' = meta
             /\ attempted' = {} /\ ~wrote'
             /\ pc' \in {"load", "idle"}
             /\ (pc = "load" /\ pc' = "idle")
                    => outcome' \in {"skipped", "crashed"}]_vars

C6_Witness ==
    /\ stage = "vis" /\ pc = "idle" /\ outcome = "skipped"
    /\ hyp.state = "ok" /\ DOMAIN hyp.data # {}
    /\ exp.state = "absent"
    /\ meta.state = "ok" /\ DOMAIN meta.data # {}

(* C7: an item whose external call returned None or an empty value is      *)
(* handled as one whose call raised: nothing is recorded under its key,    *)
(* the result mapping holds one entry less than the items visited, and the *)
(* key is missing from the artifact the invocation writes.                 *)
C7_FalsyLikeRaised ==
    last.result \in {"raise", "none", "empty"}
        => /\ KeyFor(last.item) \notin DOMAIN acc
           /\ Cardinality(DOMAIN acc) < Cardinality(attempted)
           /\ Returned => KeyFor(last.item) \notin OutKeys

C7_Witness ==
    /\ Returned /\ stage = "hyp" /\ last.result = "empty"
    /\ succeeded # {}

(* C8: every artifact a stage produces is at all times either absent or a  *)
(* complete well-formed mapping.                                           *)
C8_ArtifactAtomicity ==
    /\ lit.state \in {"absent", "ok"}
    /\ hyp.state \in {"absent", "ok"}
    /\ meta.state \in {"absent", "ok"}

(* C9: no invocation ends with an exception escaping the stage function.   *)
C9_ErrorContainment ==
    outcome \notin {"item_error", "write_error"}

(* C10: a stage run twice in a row, the external calls giving the same     *)
(* results, leaves the artifact with the content the first run left; and   *)
(* no key of the artifact's previous version survives a write unless the   *)
(* run produced it.                                                        *)
C10_IdempotentReplace ==
    Returned
        => /\ (prev.stage = stage /\ prev.outcome = "returned"
                  /\ prev.succeeded = succeeded)
                 => OutFile(stage) = prev.out
           /\ \A k \in OutKeys : \E it \in succeeded : k = KeyFor(it)

C10_Witness ==
    /\ Returned /\ stage = "vis" /\ prev.stage = "vis"
    /\ prev.outcome = "returned" /\ prev.succeeded = succeeded
    /\ succeeded # {} /\ skipped > 0
    /\ meta = prev.out

-----------------------------------------------------------------------------
FailureEvents(events) == SelectSeq(events, LAMBDA e : e.level = "error")

(* C11: the visit of an item whose external call raised or returned an     *)
(* empty result sends the logger exactly one failure event, and that event *)
(* names the item's key.                                                   *)
C11_OneKeyedFailureEvent ==
    last.result \in {"raise", "none", "empty"}
        => FailureEvents(last.events)
              = <<[level |-> "error", key |-> KeyFor(last.item)]>>

-----------------------------------------------------------------------------
(* The inputs of the stage exist: papers to analyse, or input files that   *)
(* load.                                                                   *)
InputsExist ==
    CASE stage = "lit" -> papers # {}
      [] stage = "hyp" -> lit.state = "ok"
      [] stage = "vis" -> hyp.state = "ok" /\ exp.state = "ok"
      [] OTHER -> FALSE

(* C12: however the invocation before it ended, a stage invoked while its  *)
(* own inputs exist is not skipped: it visits every item and reaches its   *)
(* persist step, and when the write goes through the artifact is there.    *)
C12_StageIndependence ==
    (pc = "idle" /\ stage \in Stages /\ outcome # "crashed" /\ InputsExist)
        => /\ outcome \in {"returned", "write_error"}
           /\ attempted = AllItems
           /\ outcome = "returned" => wrote /\ OutFile(stage).state = "ok"

-----------------------------------------------------------------------------
(* The state of the stage's state machine for the invocation at hand. *)
StageState ==
    CASE stage = "none" -> "PENDING"
      [] pc # "idle" -> "RUNNING"
      [] outcome = "skipped" -> "SKIPPED"
      [] outcome = "returned" /\ skipped = 0 -> "COMPLETED"
      [] outcome = "returned" /\ skipped > 0 -> "PARTIAL"
      [] outcome = "crashed" -> "KILLED"
      [] OTHER -> "FAILED"

(* C13: an invocation that is not killed ends COMPLETED, SKIPPED or        *)
(* PARTIAL, never in another terminal state.                               *)
C13_TerminalStates ==
    StageState \in {"PENDING", "RUNNING", "KILLED",
                    "COMPLETED", "SKIPPED", "PARTIAL"}

-----------------------------------------------------------------------------
(* The inputs a stage loads. *)
RequiredInputs(s) ==
    CASE s = "lit" -> {"papers"}
      [] s = "hyp" -> {"literature_analysis"}
      [] OTHER -> {"generated_hypotheses", "experimental_analysis"}

(* Item a comes before item b in the input: the hypotheses before the      *)
(* experimental results, each collection in the order of its keys.         *)
InputBefore(a, b) ==
    \/ a[1] = "hypothesis" /\ b[1] = "results"
    \/ a[1] = b[1] /\ a[2] < b[2]

(* C14: a loop body is entered only once all inputs are loaded, for one    *)
(* item per step and only after every item before it in the input; the     *)
(* output artifact changes only once every item has been attempted, never  *)
(* in a step that visits an item, and not again after the write.           *)
C14_StepOrdering ==
    [][/\ (attempted' # attempted /\ attempted' # {})
            => /\ loaded = RequiredInputs(stage) /\ loaded' = loaded
               /\ \E it \in attempted' \ attempted :
                     /\ attempted' = attempted \cup {it}
                     /\ \A o \in AllItems : InputBefore(o, it) => o \in attempted
               /\ <<lit, hyp, meta>>' = <<lit, hyp, meta>>
       /\ <<lit, hyp, meta>>' # <<lit, hyp, meta>>
            => /\ attempted = AllItems /\ attempted' = attempted
               /\ ~wrote]_vars

C14_Witness ==
    /\ Returned /\ stage = "vis" /\ wrote
    /\ Cardinality(attempted) = NumTitles + NumDatasets

-----------------------------------------------------------------------------
(* C15 as stated: every key of the artifact a stage wrote is the unchanged *)
(* key of an item of its input (a paper title, a key of                    *)
(* literature_analysis.json, a key of generated_hypotheses.json or of      *)
(* experimental_analysis.json), one key per stored item.                   *)
C15_KeysUnchanged ==
    Returned
        => /\ stage = "lit" => OutKeys \subseteq {<<"", t>> : t \in papers}
           /\ stage = "hyp" => OutKeys \subseteq DOMAIN lit.data
           /\ stage = "vis" => OutKeys \subseteq DOMAIN hyp.data \cup DOMAIN exp.data
           /\ Cardinality(OutKeys) = Cardinality(succeeded)

(* C15 as amended: every key of literature_analysis.json is the title of a *)
(* loaded paper, every key of generated_hypotheses.json is a key of the    *)
(* literature_analysis.json read, every key of visualization_metadata.json *)
(* is 'hypothesis_'+k for a key k of generated_hypotheses.json or          *)
(* 'results_'+d for a key d of experimental_analysis.json; every key       *)
(* stands for exactly one stored item, so no two items share a key.        *)
C15_KeysTraceable ==
    Returned
        => /\ stage = "lit" => OutKeys \subseteq {<<"", t>> : t \in papers}
           /\ stage = "hyp" => OutKeys \subseteq DOMAIN lit.data
           /\ stage = "vis" =>
                 OutKeys \subseteq
                     {<<"hypothesis_", k[2]>> : k \in DOMAIN hyp.data}
                         \cup {<<"results_", k[2]>> : k \in DOMAIN exp.data}
           /\ \A k \in OutKeys :
                 Cardinality({it \in succeeded : KeyFor(it) = k}) = 1
           /\ Cardinality(OutKeys) = Cardinality(succeeded)

(* A hypothesis and a dataset of the same name, both recorded. *)
C15_Witness ==
    /\ Returned /\ stage = "vis"
    /\ \E n \in Titles \cap Datasets :
          {<<"hypothesis_", n>>, <<"results_", n>>} \subseteq OutKeys

-----------------------------------------------------------------------------
(* C16: literature_analysis.json changes only in a step of analyze_papers, *)
(* generated_hypotheses.json only in a step of generate_hypotheses,        *)
(* visualization_metadata.json only in a step of generate_visualizations;  *)
(* experimental_analysis.json and the research papers change in no step.   *)
C16_SingleProducer ==
    [][/\ lit' # lit => stage = "lit" /\ stage' = "lit"
       /\ hyp' # hyp => stage = "hyp" /\ stage' = "hyp"
       /\ meta' # meta => stage = "vis" /\ stage' = "vis"
       /\ exp' = exp
       /\ papers' = papers]_vars

(* generate_hypotheses has written its artifact from a non-empty analysis. *)
C16_Witness ==
    /\ Returned /\ stage = "hyp" /\ wrote
    /\ lit.state = "ok" /\ DOMAIN lit.data # {}
    /\ OutKeys # {}

-----------------------------------------------------------------------------
(* C17: in generate_visualizations every entry of the result mapping, and  *)
(* of the metadata file it is dumped to, stands for an item whose image    *)
(* was rendered and saved earlier in the same invocation and holds that    *)
(* image's path; an item whose render or save failed has no entry.         *)
C17_RecordedOnlyIfSaved ==
    stage = "vis"
        => /\ \A k \in DOMAIN acc :
                 /\ \E it \in succeeded : k = KeyFor(it)
                 /\ acc[k] = [png |-> k]
           /\ \A it \in attempted \ succeeded : KeyFor(it) \notin DOMAIN acc
           /\ Returned
                 => \A k \in OutKeys :
                       /\ \E it \in succeeded : k = KeyFor(it)
                       /\ meta.data[k] = [png |-> k]

(* A metadata file written after one image was saved and one was not. *)
C17_Witness ==
    /\ Returned /\ stage = "vis" /\ last.result = "raise"
    /\ OutKeys # {}
    /\ attempted \ succeeded # {}

-----------------------------------------------------------------------------
(* C18: an invocation of analyze_papers that finds no papers changes no    *)
(* artifact in any of its steps, builds no result and ends at its early    *)
(* return; and an invocation of generate_hypotheses that follows it has,   *)
(* when it ends, entered its loop body for exactly the keys of the         *)
(* literature_analysis.json that was there before, or has returned early   *)
(* if there was none.                                                      *)
C18_NoPapersKeepsAnalysis ==
    [][/\ (stage' = "lit" /\ papers' = {})
            => /\ <<lit, hyp, exp, meta>>' = <<lit, hyp, exp, meta>>
               /\ acc' = EmptyMap /\ attempted' = {} /\ ~wrote'
               /\ pc' \in {"load", "idle"}
               /\ pc' = "idle" => outcome' \in {"skipped", "crashed"}
       /\ (/\ stage' = "hyp" /\ pc' = "idle" /\ outcome' # "crashed"
           /\ prev'.stage = "lit" /\ prev'.outcome = "skipped")
            => IF lit'.state = "ok"
               THEN /\ attempted'
                          = {<<"analysis", k[2]>> : k \in DOMAIN lit'.data}
                    /\ outcome' \in {"returned", "write_error"}
               ELSE attempted' = {} /\ outcome' = "skipped"]_vars

(* No papers, an analysis of an earlier run, hypotheses generated from it. *)
C18_Witness ==
    /\ Returned /\ stage = "hyp"
    /\ prev.stage = "lit" /\ prev.outcome = "skipped"
    /\ papers = {} /\ lit = StaleLit
    /\ OutKeys # {}

====
